---- MODULE Spec2Model ----
(***************************************************************************)
(* A model of the jobqueue-monitor client: the list screens (JobScreen,    *)
(* QueueScreen), the detail screens, the query function and the data       *)
(* shaping helpers (natural_sort_key, extract_row, parse_state_count).     *)
(*                                                                         *)
(* Strings are sequences of one-character strings, so that splitting,      *)
(* prefix matching and comparison are computed and not assumed.  A JSON    *)
(* value is a tagged record: StrV(chars), IntV(n), MapV(function), NullV.  *)
(* A Python call that may raise returns [exc |-> name, val |-> value],     *)
(* exc = "none" when it returns normally.                                  *)
(***************************************************************************)
EXTENDS Integers, Sequences, FiniteSets, TLC

VARIABLES
    kind,       \* which list screen is followed: "job" or "queue"
    mounted,    \* the screen's on_mount has run
    data,       \* the screen's self.data (NoAttr before it is assigned)
    rows,       \* the rows of the screen's DataTable
    loading,    \* the DataTable's loading flag
    workers,    \* the workers started by refresh_*_table, in order of issue
    msgs,       \* the screen's queue of posted *QueryResult messages
    search,     \* the value of the search Input
    shown,      \* ghost: index of the worker whose result refresh_data applied last
    shutdown,   \* progress of cleanup(): [pc, via]
    error,      \* the unhandled exception that ended the app, or "none"
    detail,     \* the state of a detail screen
    arg,        \* input of the function under study
    ret,        \* its result
    app         \* the state of the JobqueueMonitor app during start-up

vars == <<kind, mounted, data, rows, loading, workers, msgs, search, shown,
          shutdown, error, detail, arg, ret, app>>

(***************************************************************************)
(* Bounds of the model.                                                    *)
(***************************************************************************)
MaxIds == 3
MaxStrLen == 5

(***************************************************************************)
(* Characters and strings.                                                 *)
(***************************************************************************)
\* The characters of the model in code point order.  "U00B2" stands for the
\* superscript two and "U0663" for the Arabic-Indic digit three.
CodeOrder ==
    <<" ", "#", "(", ")", "+", "-", ".",
      "0", "1", "2", "3", "4", "5", "6", "7", "8", "9", ":",
      "A", "B", "E", "F", "H", "M", "P", "Q", "R", "S", "T", "U", "W", "X", "Z",
      "^", "_",
      "a", "b", "c", "d", "e", "f", "g", "h", "i", "j", "k", "l", "m", "n",
      "o", "p", "q", "r", "s", "t", "u", "v", "w", "x", "y", "z",
      "U00B2", "U0663">>

Ord(c) == CHOOSE i \in 1..Len(CodeOrder) : CodeOrder[i] = c

\* The class [0-9] of split_re.
AsciiDigits == {"0", "1", "2", "3", "4", "5", "6", "7", "8", "9"}

\* Characters int() reads as a decimal digit.
DecimalDigits == AsciiDigits \cup {"U0663"}

\* Characters for which str.isdigit() is true.
IsDigitChars == DecimalDigits \cup {"U00B2"}

DigitVal(c) ==
    CASE c = "0" -> 0 [] c = "1" -> 1 [] c = "2" -> 2 [] c = "3" -> 3
      [] c = "4" -> 4 [] c = "5" -> 5 [] c = "6" -> 6 [] c = "7" -> 7
      [] c = "8" -> 8 [] c = "9" -> 9 [] c = "U0663" -> 3

StrV(s) == [t |-> "str", v |-> s]
IntV(n) == [t |-> "int", v |-> n]
MapV(m) == [t |-> "map", v |-> m]
NullV == [t |-> "null", v |-> <<>>]

Ok(v) == [exc |-> "none", val |-> v]
Raise(e) == [exc |-> e, val |-> <<>>]

\* a < b for Python strings: by code point, a proper prefix first.
RECURSIVE StrLess(_, _)
StrLess(a, b) ==
    IF b = <<>> THEN FALSE
    ELSE IF a = <<>> THEN TRUE
    ELSE IF Head(a) = Head(b) THEN StrLess(Tail(a), Tail(b))
    ELSE Ord(Head(a)) < Ord(Head(b))

\* str.isdigit(): not empty and every character a digit.
isdigit(s) == s # <<>> /\ \A i \in 1..Len(s) : s[i] \in IsDigitChars

RECURSIVE DigitsValue(_, _)
DigitsValue(s, acc) ==
    IF s = <<>> THEN acc
    ELSE IF Head(s) = "_" THEN DigitsValue(Tail(s), acc)
    ELSE DigitsValue(Tail(s), 10 * acc + DigitVal(Head(s)))

\* The digits of an int() literal: decimal digits, single underscores between.
IsIntBody(b) ==
    /\ b # <<>>
    /\ \A i \in 1..Len(b) : b[i] \in DecimalDigits \cup {"_"}
    /\ b[1] # "_" /\ b[Len(b)] # "_"
    /\ \A i \in 1..(Len(b) - 1) : ~(b[i] = "_" /\ b[i + 1] = "_")

\* int(s) for a string without surrounding whitespace.
PyInt(s) ==
    LET signed == s # <<>> /\ Head(s) \in {"-", "+"}
        body == IF signed THEN Tail(s) ELSE s
    IN IF IsIntBody(body)
       THEN Ok(IF signed /\ Head(s) = "-"
               THEN 0 - DigitsValue(body, 0) ELSE DigitsValue(body, 0))
       ELSE Raise("ValueError")

(***************************************************************************)
(* utils.natural_sort_key                                                  *)
(***************************************************************************)
RECURSIVE TakeWhile(_, _)
TakeWhile(s, set) ==
    IF s = <<>> \/ Head(s) \notin set THEN <<>>
    ELSE <<Head(s)>> \o TakeWhile(Tail(s), set)

RECURSIVE TakeUntil(_, _)
TakeUntil(s, set) ==
    IF s = <<>> \/ Head(s) \in set THEN <<>>
    ELSE <<Head(s)>> \o TakeUntil(Tail(s), set)

Drop(s, n) == SubSeq(s, n + 1, Len(s))

\* split_re.split(value): the pieces between the maximal runs of [0-9] and,
\* the pattern having a group, the runs themselves.
RECURSIVE split_re_split(_)
split_re_split(value) ==
    LET text == TakeUntil(value, AsciiDigits)
        rest == Drop(value, Len(text))
        run == TakeWhile(rest, AsciiDigits)
    IN IF rest = <<>> THEN <<text>>
       ELSE <<text, run>> \o split_re_split(Drop(rest, Len(run)))

\* One element of the key: int(part) if part.isdigit() else part.
KeyPart(part) ==
    IF isdigit(part)
    THEN (IF \A i \in 1..Len(part) : part[i] \in DecimalDigits
          THEN Ok(IntV(DigitsValue(part, 0)))
          ELSE Raise("ValueError"))
    ELSE Ok(StrV(part))

natural_sort_key(value) ==
    LET parts == split_re_split(value)
        keyed == [i \in 1..Len(parts) |-> KeyPart(parts[i])]
    IN IF \E i \in 1..Len(parts) : keyed[i].exc # "none"
       THEN Raise("ValueError")
       ELSE Ok([i \in 1..Len(parts) |-> keyed[i].val])

\* a < b for two list elements: an int and a str do not compare.
ElemLess(a, b) ==
    IF a.t # b.t THEN Raise("TypeError")
    ELSE IF a.t = "int" THEN Ok(a.v < b.v)
    ELSE Ok(StrLess(a.v, b.v))

\* a < b for two lists: decided at the first index where they differ.
RECURSIVE KeyLess(_, _)
KeyLess(a, b) ==
    IF b = <<>> THEN Ok(FALSE)
    ELSE IF a = <<>> THEN Ok(TRUE)
    ELSE IF Head(a) = Head(b) THEN KeyLess(Tail(a), Tail(b))
    ELSE ElemLess(Head(a), Head(b))

\* Insertion of x behind every element that is not greater: sorted() is stable.
RECURSIVE InsertByKey(_, _)
InsertByKey(sortedRows, x) ==
    IF sortedRows = <<>> THEN <<x>>
    ELSE IF KeyLess(natural_sort_key(x[1].v).val,
                    natural_sort_key(Head(sortedRows)[1].v).val).val
         THEN <<x>> \o sortedRows
         ELSE <<Head(sortedRows)>> \o InsertByKey(Tail(sortedRows), x)

RECURSIVE InsertionSort(_)
InsertionSort(rs) ==
    IF rs = <<>> THEN <<>>
    ELSE InsertByKey(InsertionSort(SubSeq(rs, 1, Len(rs) - 1)), rs[Len(rs)])

\* sorted(rows, key=lambda x: natural_sort_key(x[0])).  The keys are computed
\* first; a comparison sort then has to order every pair of them, so one
\* pair that does not compare makes it raise.
sorted_by_id(rs) ==
    LET keys == [i \in 1..Len(rs) |-> natural_sort_key(rs[i][1].v)]
    IN IF \E i \in 1..Len(rs) : keys[i].exc # "none" THEN Raise("ValueError")
       ELSE IF \E i, j \in 1..Len(rs) : KeyLess(keys[i].val, keys[j].val).exc # "none"
            THEN Raise("TypeError")
       ELSE Ok(InsertionSort(rs))

(***************************************************************************)
(* Dictionaries.  A dict is a function from keys to JSON values; the keys  *)
(* of a record are TLA+ strings, the identifiers of a snapshot are         *)
(* character sequences.                                                    *)
(***************************************************************************)
EmptyDict == <<>>

\* d.get(k, default)
Get(d, k, default) == IF k \in DOMAIN d THEN d[k] ELSE default

\* str.lower() on the attribute names of the model.
LowerKey(k) ==
    CASE k = "Job_Name" -> "job_name"
      [] k = "Job_Owner" -> "job_owner"
      [] k = "Resource_List" -> "resource_list"
      [] k = "Rerunable" -> "rerunable"
      [] k = "Priority" -> "priority"
      [] OTHER -> k

\* {k.lower(): v for k, v in d.items()}, for a dict without two keys that
\* differ only in case.
LowerKeys(d) ==
    [k2 \in {LowerKey(k) : k \in DOMAIN d} |->
        d[CHOOSE k \in DOMAIN d : LowerKey(k) = k2]]

Missing == StrV(<<"(", "m", "i", "s", "s", "i", "n", "g", ")">>)
Unset == StrV(<<"(", "u", "n", "s", "e", "t", ")">>)
NotRunning == StrV(<<"(", "n", "o", "t", " ", "r", "u", "n", "n", "i", "n", "g", ")">>)
NoneStr == StrV(<<"(", "n", "o", "n", "e", ")">>)

(***************************************************************************)
(* screens/job.py: job_states, extract_row, update_job_table               *)
(***************************************************************************)
job_states ==
    <<<<<<"R">>, <<"r", "u", "n", "n", "i", "n", "g">>>>,
      <<<<"Q">>, <<"q", "u", "e", "u", "e", "d">>>>,
      <<<<"H">>, <<"o", "n", " ", "h", "o", "l", "d">>>>,
      <<<<"B">>, <<"b", "e", "g", "u", "n">>>>,
      <<<<"E">>, <<"e", "x", "i", "t", "i", "n", "g">>>>,
      <<<<"F">>, <<"f", "i", "n", "i", "s", "h", "e", "d">>>>,
      <<<<"M">>, <<"m", "o", "v", "e", "d">>>>,
      <<<<"S">>, <<"s", "u", "s", "p", "e", "n", "d", "e", "d">>>>,
      <<<<"T">>, <<"t", "r", "a", "n", "s", "i", "t", "i", "n", "g">>>>,
      <<<<"W">>, <<"w", "a", "i", "t", "i", "n", "g">>>>,
      <<<<"U">>, <<"u", "s", "e", "r", " ", "s", "u", "s", "p", "e", "n", "d", "e", "d">>>>,
      <<<<"X">>, <<"e", "x", "p", "i", "r", "e", "d">>>>>>

\* job_states.get(job_state, job_state)
JobStateLabel(v) ==
    IF v.t = "str" /\ \E i \in 1..Len(job_states) : job_states[i][1] = v.v
    THEN StrV(job_states[CHOOSE i \in 1..Len(job_states) : job_states[i][1] = v.v][2])
    ELSE v

job_extract_row(id, rec) ==
    IF "attributes" \notin DOMAIN rec THEN Raise("KeyError")
    ELSE LET attrs == LowerKeys(rec["attributes"].v)
             used == Get(attrs, "resources_used", MapV(EmptyDict))
         IN IF {"job_state", "queue", "job_name", "job_owner"} \subseteq DOMAIN attrs
            THEN Ok(<<StrV(id),
                      attrs["queue"],
                      JobStateLabel(attrs["job_state"]),
                      attrs["job_name"],
                      attrs["job_owner"],
                      Get(used.v, "walltime", NotRunning)>>)
            ELSE Raise("KeyError")

(***************************************************************************)
(* screens/queue.py: extract_row, update_queue_table                       *)
(***************************************************************************)
\* Python truth of a JSON value.
Truthy(v) ==
    CASE v.t = "null" -> FALSE
      [] v.t = "str" -> v.v # <<>>
      [] v.t = "int" -> v.v # 0
      [] v.t = "map" -> DOMAIN v.v # {}
      [] OTHER -> TRUE

queue_extract_row(id, rec) ==
    IF "attributes" \notin DOMAIN rec \/ "description" \notin DOMAIN rec
    THEN Raise("KeyError")
    ELSE LET attrs == rec["attributes"].v
             description == IF Truthy(rec["description"])
                            THEN rec["description"] ELSE Missing
         IN IF {"queue_type", "total_jobs"} \subseteq DOMAIN attrs
            THEN Ok(<<StrV(id), attrs["queue_type"], attrs["total_jobs"], description>>)
            ELSE Raise("KeyError")

extract_row(k, id, rec) ==
    IF k = "job" THEN job_extract_row(id, rec) ELSE queue_extract_row(id, rec)

\* update_job_table / update_queue_table: the new rows of the table.  A
\* snapshot is the sequence of its [id, rec] entries in insertion order; the
\* table is cleared and filled only after the rows were built and sorted,
\* so an exception leaves it as it was.
update_table(k, table, snapshot) ==
    LET extracted == [i \in 1..Len(snapshot) |->
                         extract_row(k, snapshot[i].id, snapshot[i].rec)]
    IN IF \E i \in 1..Len(snapshot) : extracted[i].exc # "none"
       THEN [exc |-> "KeyError", val |-> table]
       ELSE LET srt == sorted_by_id([i \in 1..Len(snapshot) |-> extracted[i].val])
            IN IF srt.exc # "none" THEN [exc |-> srt.exc, val |-> table]
               ELSE srt

(***************************************************************************)
(* screens/queue.py: parse_state_count, update_job_summary                 *)
(***************************************************************************)
Whitespace == {" "}

LowerChar(c) ==
    CASE c = "A" -> "a" [] c = "B" -> "b" [] c = "E" -> "e" [] c = "F" -> "f"
      [] c = "H" -> "h" [] c = "M" -> "m" [] c = "P" -> "p" [] c = "Q" -> "q"
      [] c = "R" -> "r" [] c = "S" -> "s" [] c = "T" -> "t" [] c = "U" -> "u"
      [] c = "W" -> "w" [] c = "X" -> "x" [] c = "Z" -> "z" [] OTHER -> c

\* str.lower()
lower(s) == [i \in 1..Len(s) |-> LowerChar(s[i])]

\* str.strip().split(): the maximal runs of characters that are not whitespace.
RECURSIVE split_whitespace(_)
split_whitespace(s) ==
    LET body == Drop(s, Len(TakeWhile(s, Whitespace)))
        token == TakeUntil(body, Whitespace)
    IN IF body = <<>> THEN <<>>
       ELSE <<token>> \o split_whitespace(Drop(body, Len(token)))

\* str.split(sep): one piece more than there are separators.
RECURSIVE split_on(_, _)
split_on(s, sep) ==
    LET piece == TakeUntil(s, {sep})
        rest == Drop(s, Len(piece))
    IN IF rest = <<>> THEN <<piece>>
       ELSE <<piece>> \o split_on(Tail(rest), sep)

\* d[k] = v on a dict kept as the sequence of its items in insertion order.
RECURSIVE PutItem(_, _, _)
PutItem(items, k, v) ==
    IF items = <<>> THEN <<(<<k, v>>)>>
    ELSE IF Head(items)[1] = k THEN <<(<<k, v>>)>> \o Tail(items)
    ELSE <<Head(items)>> \o PutItem(Tail(items), k, v)

\* A decoder that drops the pairs it cannot read and returns the rest.
RECURSIVE StateCountItemsSkipBad(_, _)
StateCountItemsSkipBad(parts, items) ==
    IF parts = <<>> THEN Ok(items)
    ELSE LET pieces == split_on(Head(parts), ":")
         IN IF Len(pieces) # 2 \/ PyInt(pieces[Len(pieces)]).exc # "none"
            THEN StateCountItemsSkipBad(Tail(parts), items)
            ELSE StateCountItemsSkipBad(Tail(parts),
                     PutItem(items, lower(pieces[1]), PyInt(pieces[2]).val))

\* The dict comprehension over the pairs: the first pair that does not unpack
\* into name and count, or whose count int() rejects, raises.
RECURSIVE StateCountItems(_, _)
StateCountItems(parts, items) ==
    IF parts = <<>> THEN Ok(items)
    ELSE LET pieces == split_on(Head(parts), ":")
         IN IF Len(pieces) # 2 THEN Raise("ValueError")
            ELSE IF PyInt(pieces[2]).exc # "none" THEN Raise("ValueError")
            ELSE StateCountItems(Tail(parts),
                     PutItem(items, lower(pieces[1]), PyInt(pieces[2]).val))

parse_state_count(string) == StateCountItems(split_whitespace(string), <<>>)

TotalLabel == <<"t", "o", "t", "a", "l">>

\* update_job_summary: the new rows of the table; the parse comes before
\* table.clear, so an exception leaves the table as it was.
update_job_summary(table, attrs) ==
    IF "total_jobs" \notin DOMAIN attrs \/ "state_count" \notin DOMAIN attrs
    THEN [exc |-> "KeyError", val |-> table]
    ELSE IF attrs["state_count"].t # "str"
    THEN [exc |-> "AttributeError", val |-> table]
    ELSE LET state_count == parse_state_count(attrs["state_count"].v)
         IN IF state_count.exc # "none"
            THEN [exc |-> state_count.exc, val |-> table]
            ELSE Ok([i \in 1..Len(state_count.val) |->
                        <<StrV(state_count.val[i][1]), IntV(state_count.val[i][2])>>]
                    \o <<(<<StrV(TotalLabel), attrs["total_jobs"]>>)>>)

(***************************************************************************)
(* Values of the variables a specification does not use.                   *)
(***************************************************************************)
NoData == [set |-> FALSE, val |-> <<>>]
NoShutdown == [pc |-> "none", via |-> "none"]
NoDetail == [open |-> FALSE]
Pending == [exc |-> "pending", val |-> <<>>]
NoApp == [pc |-> "none"]

ListIdle ==
    /\ mounted = FALSE /\ data = NoData /\ rows = <<>> /\ loading = FALSE
    /\ workers = <<>> /\ msgs = <<>> /\ search = <<>> /\ shown = 0
    /\ shutdown = NoShutdown /\ error = "none" /\ app = NoApp

ListVars == <<mounted, data, rows, loading, workers, msgs, search, shown,
              shutdown, error, app>>

(***************************************************************************)
(* Ordering of a list view: update_job_table / update_queue_table on the   *)
(* snapshots over a pool of identifiers, in every insertion order.         *)
(***************************************************************************)
IdPool ==
    { <<"1">>, <<"2">>, <<"1", "0">>, <<"a">>,
      <<"j", "o", "b", "2">>, <<"j", "o", "b", "1", "0">>,
      <<"j", "o", "b", "1", "0", "a">>,
      <<"U0663">>, <<"U00B2">> }

FullJob ==
    [attributes |-> MapV([Job_Name |-> StrV(<<"a">>), Job_Owner |-> StrV(<<"u">>),
                          job_state |-> StrV(<<"R">>), queue |-> StrV(<<"w">>)])]

FullQueue ==
    [attributes |-> MapV([queue_type |-> StrV(<<"E">>), total_jobs |-> IntV(2)]),
     description |-> StrV(<<"d">>)]

FullRecord(k) == IF k = "job" THEN FullJob ELSE FullQueue

\* The sequences of at most n distinct elements of S.
RECURSIVE DistinctSeqs(_, _)
DistinctSeqs(S, n) ==
    IF n = 0 THEN {<<>>}
    ELSE LET shorter == DistinctSeqs(S, n - 1)
         IN shorter \cup
            { Append(q, x) : <<q, x>> \in
                { <<q, x>> \in shorter \X S :
                    Len(q) = n - 1 /\ \A i \in 1..Len(q) : q[i] # x } }

SortSnapshots(k) ==
    { [i \in 1..Len(ids) |-> [id |-> ids[i], rec |-> FullRecord(k)]] :
        ids \in DistinctSeqs(IdPool, MaxIds) }

InitSort ==
    /\ kind \in {"job", "queue"}
    /\ arg \in SortSnapshots(kind)
    /\ ret = Pending
    /\ detail = NoDetail
    /\ ListIdle

\* One call of update_job_table or update_queue_table on an empty table.
UpdateTable ==
    /\ ret = Pending
    /\ ret' = update_table(kind, <<>>, arg)
    /\ UNCHANGED <<kind, arg, detail, ListVars>>

NextSort == UpdateTable

SpecSort == InitSort /\ [][NextSort]_vars

IdsOf(rs) == [i \in 1..Len(rs) |-> rs[i][1].v]
SnapshotIds(snapshot) == [i \in 1..Len(snapshot) |-> snapshot[i].id]
Range(f) == {f[i] : i \in DOMAIN f}

Job2 == <<"j", "o", "b", "2">>
Job10 == <<"j", "o", "b", "1", "0">>
Job10a == <<"j", "o", "b", "1", "0", "a">>

\* The keys of a and b compare, and the key of a is the smaller one.
KeyBefore(a, b) ==
    /\ natural_sort_key(a).exc = "none" /\ natural_sort_key(b).exc = "none"
    /\ KeyLess(natural_sort_key(a).val, natural_sort_key(b).val) = Ok(TRUE)

\* The keys of a and b are defined and compare, in both directions.
KeysCompare(a, b) ==
    /\ natural_sort_key(a).exc = "none" /\ natural_sort_key(b).exc = "none"
    /\ KeyLess(natural_sort_key(a).val, natural_sort_key(b).val).exc = "none"
    /\ KeyLess(natural_sort_key(b).val, natural_sort_key(a).val).exc = "none"

\* The rows hold the identifiers of the snapshot, each once, none before one
\* with a smaller key.
OrderedRowsOf(rs, snapshot) ==
    /\ Len(rs) = Len(snapshot)
    /\ Range(IdsOf(rs)) = Range(SnapshotIds(snapshot))
    /\ \A i, j \in 1..Len(rs) : i < j => ~KeyBefore(rs[j][1].v, rs[i][1].v)

\* C8: for every snapshot the rows of a list view are ordered by the natural
\* sort key of the ID column whatever the insertion order, key("job2") <
\* key("job10") < key("job10a"), IDs 2, 10, 1 render as 1, 2, 10, and the
\* keys of any two identifiers compare.
C8_NaturalOrder ==
    /\ KeyBefore(Job2, Job10) /\ KeyBefore(Job10, Job10a)
    /\ ret # Pending =>
          /\ \A i, j \in 1..Len(arg) : KeysCompare(arg[i].id, arg[j].id)
          /\ ret.exc = "none"
          /\ OrderedRowsOf(ret.val, arg)
          /\ (SnapshotIds(arg) = <<(<<"2">>), (<<"1", "0">>), (<<"1">>)>> =>
                 IdsOf(ret.val) = <<(<<"1">>), (<<"2">>), (<<"1", "0">>)>>)

\* C8, for identifiers of ASCII characters only: the same statement.
AsciiId(id) == \A i \in 1..Len(id) : id[i] \notin {"U0663", "U00B2"}
C8_NaturalOrderAscii ==
    (\A i \in 1..Len(arg) : AsciiId(arg[i].id)) => C8_NaturalOrder

(***************************************************************************)
(* The state-count decoder: update_job_summary on every string over a      *)
(* small alphabet and on the examples of the specification.                *)
(***************************************************************************)
ParseAlphabet == {"Q", "r", ":", " ", "3", "-"}

RECURSIVE StringsUpTo(_, _)
StringsUpTo(S, n) ==
    IF n = 0 THEN {<<>>}
    ELSE LET shorter == StringsUpTo(S, n - 1)
         IN shorter \cup { Append(q, c) : <<q, c>> \in
                             { <<q, c>> \in shorter \X S : Len(q) = n - 1 } }

ExampleQRH == <<"Q", ":", "3", " ", "R", ":", "5", " ", "H", ":", "1">>
ExampleR5 == <<"Q", ":", "3", " ", "R", "5">>

ParseInputs ==
    StringsUpTo(ParseAlphabet, MaxStrLen)
        \cup {ExampleQRH, ExampleR5,
              <<"Q", ":", "3", " ", "q", ":", "5">>,
              <<"Q", ":", "3", ":", "4">>,
              <<"Q", ":", "1", "_", "0">>,
              <<"Q", ":", "+", "3">>,
              <<"Q", ":", "_", "3">>,
              <<"R", ":", "x">>}

\* The rows the job summary table holds before the call.
OldSummary == <<(<<StrV(<<"q">>), IntV(9)>>), (<<StrV(TotalLabel), IntV(9)>>)>>

InitParse ==
    /\ kind = "queue"
    /\ arg \in ParseInputs
    /\ ret = Pending
    /\ detail = NoDetail
    /\ mounted = FALSE /\ data = NoData /\ rows = OldSummary /\ loading = FALSE
    /\ workers = <<>> /\ msgs = <<>> /\ search = <<>> /\ shown = 0
    /\ shutdown = NoShutdown /\ error = "none" /\ app = NoApp

\* One call of update_job_summary: ret is what parse_state_count returned or
\* raised, rows the job summary table after the call.
UpdateJobSummary ==
    /\ ret = Pending
    /\ ret' = parse_state_count(arg)
    /\ LET updated == update_job_summary(rows,
                          [state_count |-> StrV(arg), total_jobs |-> IntV(2)])
       IN /\ rows' = updated.val
          /\ error' = updated.exc
    /\ UNCHANGED <<kind, arg, detail, mounted, data, loading, workers, msgs,
                   search, shown, shutdown, app>>

NextParse == UpdateJobSummary

SpecParse == InitParse /\ [][NextParse]_vars

\* The pairs of a string: the maximal runs of characters other than whitespace,
\* as pairs of their first and last index.
PairSpans(s) ==
    { sp \in (1..Len(s)) \X (1..Len(s)) :
        /\ sp[1] <= sp[2]
        /\ \A i \in sp[1]..sp[2] : s[i] # " "
        /\ (sp[1] = 1 \/ s[sp[1] - 1] = " ")
        /\ (sp[2] = Len(s) \/ s[sp[2] + 1] = " ") }

Colons(s, sp) == { i \in sp[1]..sp[2] : s[i] = ":" }
TheColon(s, sp) == CHOOSE i \in Colons(s, sp) : TRUE

\* A base-10 integer as Python writes one: an optional sign, then digits,
\* which single underscores may group.
Base10(s) ==
    LET body == IF s # <<>> /\ s[1] \in {"-", "+"} THEN Tail(s) ELSE s
    IN /\ body # <<>>
       /\ \A i \in 1..Len(body) :
              \/ body[i] \in AsciiDigits
              \/ /\ body[i] = "_"
                 /\ 1 < i /\ i < Len(body)
                 /\ body[i - 1] \in AsciiDigits /\ body[i + 1] \in AsciiDigits

RECURSIVE Base10Value(_)
Base10Value(s) ==
    IF s = <<>> THEN 0
    ELSE IF s[1] = "-" THEN 0 - Base10Value(Tail(s))
    ELSE IF s[1] = "+" THEN Base10Value(Tail(s))
    ELSE IF s[Len(s)] = "_" THEN Base10Value(SubSeq(s, 1, Len(s) - 1))
    ELSE 10 * Base10Value(SubSeq(s, 1, Len(s) - 1)) + DigitVal(s[Len(s)])

GoodPair(s, sp) ==
    /\ Cardinality(Colons(s, sp)) = 1
    /\ Base10(SubSeq(s, TheColon(s, sp) + 1, sp[2]))

PairName(s, sp) == lower(SubSeq(s, sp[1], TheColon(s, sp) - 1))
PairCount(s, sp) == Base10Value(SubSeq(s, TheColon(s, sp) + 1, sp[2]))

\* C9: parse_state_count maps a string of whitespace-separated name:integer
\* pairs to the mapping from lower-cased name to count; if a pair has not
\* exactly one colon or its count is no base-10 integer, the parse raises,
\* nothing is returned and the table keeps its rows.
C9_ParseStateCount ==
    ret # Pending =>
        IF \A sp \in PairSpans(arg) : GoodPair(arg, sp)
        THEN /\ ret.exc = "none"
             /\ {ret.val[i][1] : i \in 1..Len(ret.val)}
                    = {PairName(arg, sp) : sp \in PairSpans(arg)}
             /\ \A i, j \in 1..Len(ret.val) :
                    ret.val[i][1] = ret.val[j][1] => i = j
             /\ \A i \in 1..Len(ret.val) :
                    \E sp \in PairSpans(arg) :
                        /\ PairName(arg, sp) = ret.val[i][1]
                        /\ PairCount(arg, sp) = ret.val[i][2]
                        /\ \A other \in PairSpans(arg) :
                               PairName(arg, other) = ret.val[i][1]
                                   => other[1] <= sp[1]
             /\ (arg = ExampleQRH =>
                    ret.val = <<(<<(<<"q">>), 3>>), (<<(<<"r">>), 5>>),
                                (<<(<<"h">>), 1>>)>>)
             /\ error = "none"
             /\ Len(rows) = Len(ret.val) + 1
        ELSE /\ ret = Raise("ValueError")
             /\ error = "ValueError"
             /\ rows = OldSummary

\* A parse that failed on the second pair, after a first good one.
C9_Witness ==
    /\ arg = ExampleR5
    /\ ret = Raise("ValueError")
    /\ rows = OldSummary

(***************************************************************************)
(* query.py: query and shutdown.  A response is what the GET ended with:   *)
(* [net |-> "ok", status, body] or [net |-> "failed"] with no answer.      *)
(***************************************************************************)
EmptySnapshot == <<>>

NetFailure == [net |-> "failed", status |-> 0, body |-> EmptySnapshot]
HttpResponse(status, body) == [net |-> "ok", status |-> status, body |-> body]

\* A query that hands on the body whatever the status.
query_any_status(response) ==
    IF response.net # "ok" THEN Raise("ConnectError")
    ELSE Ok(response.body)

\* query(local_port, kind): client.get raises when there is no answer;
\* response.json() for status 200, {} for any other status.
query(response) ==
    IF response.net # "ok" THEN Raise("ConnectError")
    ELSE IF response.status = 200 THEN Ok(response.body)
    ELSE Ok(EmptySnapshot)

\* shutdown(local_port): response.raise_for_status() raises unless 2xx.
shutdown_call(response) ==
    IF response.net # "ok" THEN Raise("ConnectError")
    ELSE IF response.status >= 400 THEN Raise("HTTPStatusError")
    ELSE Ok(EmptySnapshot)

(***************************************************************************)
(* Search patterns.  The patterns of the model are literal characters,     *)
(* an optional "^" in front, and parentheses, which group.                 *)
(***************************************************************************)
RECURSIVE ParenDepthOk(_, _)
ParenDepthOk(p, depth) ==
    IF p = <<>> THEN depth = 0
    ELSE IF Head(p) = "(" THEN ParenDepthOk(Tail(p), depth + 1)
    ELSE IF Head(p) = ")" THEN depth > 0 /\ ParenDepthOk(Tail(p), depth - 1)
    ELSE ParenDepthOk(Tail(p), depth)

\* re.compile(value): an unbalanced parenthesis is an re.error.
re_compile(p) == IF ParenDepthOk(p, 0) THEN Ok(p) ELSE Raise("re.error")

RECURSIVE Literal(_)
Literal(p) ==
    IF p = <<>> THEN <<>>
    ELSE IF Head(p) \in {"(", ")"} THEN Literal(Tail(p))
    ELSE <<Head(p)>> \o Literal(Tail(p))

\* expression_re.match(v): the pattern matches at the start of the string;
\* a value that is no string is a TypeError.
re_match(p, v) ==
    LET lit == Literal(IF p # <<>> /\ Head(p) = "^" THEN Tail(p) ELSE p)
    IN IF v.t # "str" THEN Raise("TypeError")
       ELSE Ok(Len(lit) <= Len(v.v) /\ SubSeq(v.v, 1, Len(lit)) = lit)

\* any(expression_re.match(v) for v in row): stops at the first match.
RECURSIVE any_match(_, _)
any_match(p, row) ==
    IF row = <<>> THEN Ok(FALSE)
    ELSE LET m == re_match(p, Head(row))
         IN IF m.exc # "none" THEN m
            ELSE IF m.val THEN Ok(TRUE)
            ELSE any_match(p, Tail(row))

\* The dict comprehension of on_input_changed: the entries whose row matches.
RECURSIVE filter_data(_, _, _)
filter_data(k, p, snapshot) ==
    IF snapshot = <<>> THEN Ok(<<>>)
    ELSE LET row == extract_row(k, Head(snapshot).id, Head(snapshot).rec)
             hit == any_match(p, row.val)
             rest == filter_data(k, p, Tail(snapshot))
         IN IF row.exc # "none" THEN Raise(row.exc)
            ELSE IF hit.exc # "none" THEN Raise(hit.exc)
            ELSE IF rest.exc # "none" THEN rest
            ELSE IF hit.val THEN Ok(<<Head(snapshot)>> \o rest.val)
            ELSE rest

\* on_input_changed: the rows of the table after the handler, and the
\* exception that left it, if any.
on_input_changed(k, table, screenData, value) ==
    LET expression_re == re_compile(value)
    IN IF expression_re.exc # "none" THEN [exc |-> expression_re.exc, val |-> table]
       ELSE IF ~screenData.set THEN [exc |-> "AttributeError", val |-> table]
       ELSE LET new_data == filter_data(k, expression_re.val, screenData.val)
            IN IF new_data.exc # "none" THEN [exc |-> new_data.exc, val |-> table]
               ELSE update_table(k, table, new_data.val)

(***************************************************************************)
(* The list screens.  One screen instance is followed, a JobScreen or a    *)
(* QueueScreen: the two share no state, and cleanup() treats their tasks   *)
(* alike.                                                                  *)
(***************************************************************************)
MaxWorkers == 3

JobOf(state, name) ==
    [attributes |-> MapV([Job_Name |-> StrV(name), Job_Owner |-> StrV(<<"u">>),
                          job_state |-> StrV(state), queue |-> StrV(<<"w">>)])]

QueueOf(type, jobs) ==
    [attributes |-> MapV([queue_type |-> StrV(type), total_jobs |-> jobs]),
     description |-> NullV]

Entry(id, rec) == [id |-> id, rec |-> rec]

\* The bodies a /query/{kind} response carries in the model.
Bodies(k) ==
    IF k = "job"
    THEN { EmptySnapshot,
           <<Entry(<<"1", "0">>, JobOf(<<"R">>, <<"a">>)),
             Entry(<<"2">>, JobOf(<<"Q">>, <<"b">>))>>,
           <<Entry(<<"1">>, JobOf(<<"Z">>, <<"R">>))>> }
    ELSE { EmptySnapshot,
           <<Entry(<<"w", "1", "0">>, QueueOf(<<"E">>, StrV(<<"3">>))),
             Entry(<<"w", "2">>, QueueOf(<<"R">>, StrV(<<"0">>)))>>,
           <<Entry(<<"R", "1">>, QueueOf(<<"E">>, IntV(1)))>> }

ErrorBody(k) == CHOOSE b \in Bodies(k) : Len(b) = 1

Responses(k) ==
    { HttpResponse(200, b) : b \in Bodies(k) }
        \cup { HttpResponse(404, ErrorBody(k)), NetFailure }

ShutdownResponses ==
    { HttpResponse(200, EmptySnapshot), HttpResponse(500, EmptySnapshot), NetFailure }

\* The values typed into the search Input.
Patterns == { <<>>, <<"R">>, <<"^", "1">>, <<"(">> }

NoResponse == [net |-> "none", status |-> 0, body |-> EmptySnapshot]
Running == [state |-> "running", response |-> NoResponse, result |-> EmptySnapshot]

\* The app runs: no handler or worker raised, and cleanup() did not cancel
\* the tasks.
Alive == error = "none" /\ shutdown.pc # "cancelled"

\* The app handles keys: it runs, and its message pump is not inside
\* action_quit, which awaits cleanup().
UserCanAct == Alive /\ ~(shutdown.pc = "awaiting" /\ shutdown.via = "quit")

\* Worker.cancel() on every worker of the group that still runs.
CancelGroup(ws) ==
    [i \in 1..Len(ws) |->
        IF ws[i].state = "running" THEN [ws[i] EXCEPT !.state = "cancelled"]
        ELSE ws[i]]

\* A worker started without exclusive=True: the others keep running.
RunWorkerShared(ws) == Append(ws, Running)

\* self.refresh_job_table() / self.refresh_queue_table(): @work(exclusive=True,
\* group=...) cancels the workers of the group and starts a new one.
RunWorker(ws) == Append(CancelGroup(ws), Running)

Init ==
    /\ kind \in {"job", "queue"}
    /\ ListIdle
    /\ detail = NoDetail
    /\ arg = <<>>
    /\ ret = Pending

\* on_mount of JobScreen (self.data = {}) and of QueueScreen (table.loading =
\* True), each ending with the first refresh.
OnMount ==
    /\ ~mounted /\ UserCanAct
    /\ mounted' = TRUE
    /\ data' = IF kind = "job" THEN [set |-> TRUE, val |-> EmptySnapshot] ELSE data
    /\ loading' = (kind = "queue")
    /\ workers' = RunWorker(workers)
    /\ UNCHANGED <<kind, rows, msgs, search, shown, shutdown, error, detail, arg, ret, app>>

\* action_refresh (ctrl+g).
ActionRefresh ==
    /\ mounted /\ UserCanAct
    /\ Len(workers) < MaxWorkers
    /\ workers' = RunWorker(workers)
    /\ UNCHANGED <<kind, mounted, data, rows, loading, msgs, search, shown,
                   shutdown, error, detail, arg, ret, app>>

\* The GET of worker i ends and the worker runs to its end: query returns and
\* the result is posted, or query raises and the worker fails, which ends
\* the app (exit_on_error).
FetchDone(i, response) ==
    /\ Alive
    /\ workers[i].state = "running"
    /\ LET q == query(response)
       IN IF q.exc = "none"
          THEN /\ workers' = [workers EXCEPT ![i] =
                     [state |-> "success", response |-> response, result |-> q.val]]
               /\ msgs' = Append(msgs, [data |-> q.val, of |-> i])
               /\ error' = error
          ELSE /\ workers' = [workers EXCEPT ![i] =
                     [state |-> "error", response |-> response, result |-> EmptySnapshot]]
               /\ msgs' = msgs
               /\ error' = q.exc
    /\ UNCHANGED <<kind, mounted, data, rows, loading, search, shown, shutdown,
                   detail, arg, ret, app>>

\* refresh_data, the handler of JobQueryResult / QueueQueryResult.
RefreshData ==
    /\ Alive
    /\ msgs # <<>>
    /\ LET message == Head(msgs)
           updated == update_table(kind, rows, message.data)
       IN /\ data' = [set |-> TRUE, val |-> message.data]
          /\ shown' = message.of
          /\ rows' = updated.val
          /\ error' = updated.exc
          /\ loading' = IF updated.exc = "none" THEN FALSE ELSE loading
    /\ msgs' = Tail(msgs)
    /\ UNCHANGED <<kind, mounted, workers, search, shutdown, detail, arg, ret, app>>

\* on_input_changed with the Input holding value.
InputChanged(value) ==
    /\ mounted /\ UserCanAct
    /\ value # search
    /\ search' = value
    /\ LET handled == on_input_changed(kind, rows, data, value)
       IN /\ rows' = handled.val
          /\ error' = handled.exc
    /\ UNCHANGED <<kind, mounted, data, loading, workers, msgs, shown, shutdown,
                   detail, arg, ret, app>>

\* cleanup() starts: action_quit awaits it, the signal handler makes it a task.
\* It is now waiting for the answer to GET /shutdown.
StartCleanup(via) ==
    /\ UserCanAct
    /\ shutdown.pc = "none"
    /\ shutdown' = [pc |-> "awaiting", via |-> via]
    /\ UNCHANGED <<kind, mounted, data, rows, loading, workers, msgs, search,
                   shown, error, detail, arg, ret, app>>

\* GET /shutdown ends.  After shutdown() returned, cleanup() cancels every
\* task; if shutdown() raised, the loop is not reached: the exception ends
\* the app when action_quit awaited it, and is lost with the task of the
\* signal handler.
CleanupDone(response) ==
    /\ Alive
    /\ shutdown.pc = "awaiting"
    /\ LET down == shutdown_call(response)
       IN IF down.exc = "none"
          THEN /\ shutdown' = [shutdown EXCEPT !.pc = "cancelled"]
               /\ workers' = CancelGroup(workers)
               /\ error' = error
          ELSE /\ shutdown' = [shutdown EXCEPT !.pc = "failed"]
               /\ workers' = workers
               /\ error' = IF shutdown.via = "quit" THEN down.exc ELSE error
    /\ UNCHANGED <<kind, mounted, data, rows, loading, msgs, search, shown,
                   detail, arg, ret, app>>

Next ==
    \/ OnMount
    \/ ActionRefresh
    \/ \E i \in 1..Len(workers) : \E response \in Responses(kind) :
           FetchDone(i, response)
    \/ RefreshData
    \/ \E value \in Patterns : InputChanged(value)
    \/ \E via \in {"quit", "signal"} : StartCleanup(via)
    \/ \E response \in ShutdownResponses : CleanupDone(response)

Spec == Init /\ [][Next]_vars

RunningWorkers == { i \in 1..Len(workers) : workers[i].state = "running" }

\* Nothing of a fetch is left to happen: no worker runs, no result is queued.
Quiescent == RunningWorkers = {} /\ msgs = <<>>

\* C1: refresh is single-flight per view.  A refresh issued while a fetch is
\* outstanding cancels it, so at most one fetch runs, the one issued last; a
\* cancelled fetch never writes; results are applied in the order of issue;
\* and once nothing is outstanding the snapshot and the table are those of
\* the refresh issued last.
C1_SingleFlight ==
    /\ Cardinality(RunningWorkers) <= 1
    /\ \A i \in RunningWorkers : i = Len(workers)
    /\ \A n \in 1..Len(msgs) :
          /\ workers[msgs[n].of].state = "success"
          /\ msgs[n].data = workers[msgs[n].of].result
          /\ shown < msgs[n].of
          /\ \A m \in 1..Len(msgs) : m < n => msgs[m].of < msgs[n].of
    /\ shown # 0 =>
          /\ workers[shown].state = "success"
          /\ data = [set |-> TRUE, val |-> workers[shown].result]
    /\ (Alive /\ mounted /\ Quiescent) =>
          /\ shown = Len(workers)
          /\ data = [set |-> TRUE, val |-> workers[Len(workers)].result]
          /\ search = <<>> =>
                 rows = update_table(kind, <<>>, workers[Len(workers)].result).val

\* A fetch was superseded by a refresh, and the table shows the result of
\* the refresh issued last, which returned rows.
C1_Witness ==
    /\ Alive /\ Quiescent /\ shutdown.pc = "none"
    /\ \E i \in 1..Len(workers) : workers[i].state = "cancelled"
    /\ shown = Len(workers)
    /\ rows # <<>>

\* C7: query returns the decoded body when the status is 200 and the empty
\* mapping for every other status; a response of any status never raises.
C7_QueryStatus ==
    \A i \in 1..Len(workers) :
        workers[i].response.net = "ok" =>
            /\ workers[i].state = "success"
            /\ workers[i].result =
                   IF workers[i].response.status = 200
                   THEN workers[i].response.body ELSE EmptySnapshot

\* One fetch was answered 404 with a body and gave the empty mapping, another
\* was answered 200 and gave its body.
C7_Witness ==
    \E i, j \in 1..Len(workers) :
        /\ workers[i].response.net = "ok" /\ workers[i].response.status = 404
        /\ workers[i].response.body # EmptySnapshot
        /\ workers[i].result = EmptySnapshot
        /\ workers[j].response.net = "ok" /\ workers[j].response.status = 200
        /\ workers[j].result # EmptySnapshot

\* C2: whatever a query call ends with (200, another status, no answer), the
\* view renders: once the fetch issued last has failed and nothing is
\* outstanding, the snapshot is empty and the table is not loading and has
\* no rows.
C2_FailedFetchRenders ==
    (/\ mounted /\ Quiescent /\ shutdown.pc = "none"
     /\ workers[Len(workers)].state \in {"success", "error"}
     /\ ~(workers[Len(workers)].response.net = "ok"
            /\ workers[Len(workers)].response.status = 200))
        => /\ loading = FALSE
           /\ rows = <<>>
           /\ data = [set |-> TRUE, val |-> EmptySnapshot]

\* C3: a change of the search input to a malformed expression does not raise
\* and leaves the rows displayed as they were.
C3_BadPatternKeepsRows ==
    [][(search' # search /\ re_compile(search').exc # "none")
          => (error' = "none" /\ rows' = rows)]_vars

\* C4: once cleanup() has started, whatever GET /shutdown ends with, no query
\* result is applied to the snapshot or the table of a view.
C4_NoResultAfterShutdown ==
    [][shutdown.pc # "none" => shown' = shown]_vars

(***************************************************************************)
(* screens/job.py: the tables of JobDetailScreen.  A row is its label, a   *)
(* TLA+ string, followed by its values.                                    *)
(***************************************************************************)
\* rows = [(k, data.get(k, placeholder)) for k in keys]
KeyRows(keys, attrs, placeholder) ==
    [i \in 1..Len(keys) |-> <<keys[i], Get(attrs, keys[i], placeholder)>>]

update_job_details(attrs) ==
    Ok(KeyRows(<<"job_name", "job_owner", "project", "session_id", "queue",
                 "server", "submit_arguments", "error_path", "output_path">>,
               attrs, Missing))

update_properties(attrs) ==
    Ok(KeyRows(<<"priority", "rerunnable", "run_count", "checkpoint", "substate",
                 "pset", "hold_types", "join_path", "keep_files", "mail_points">>,
               attrs, Missing))

\* The ISO 8601 text of the local time n seconds after the epoch.
IsoV(n) == [t |-> "iso", v |-> n]

\* parse_timestamp: "(missing)" for None, else the time int(timestamp) names.
parse_timestamp(v) ==
    CASE v.t = "null" -> Ok(Missing)
      [] v.t = "int" -> Ok(IsoV(v.v))
      [] v.t = "str" -> IF PyInt(v.v).exc = "none" THEN Ok(IsoV(PyInt(v.v).val))
                        ELSE Raise("ValueError")
      [] OTHER -> Raise("TypeError")

\* job_translations.get(k, k)
TimestampLabel(k) ==
    CASE k = "ctime" -> "creation time"
      [] k = "qtime" -> "queue time"
      [] k = "stime" -> "start time"
      [] k = "mtime" -> "last modification"
      [] OTHER -> k

TimestampKeys == <<"ctime", "etime", "qtime", "stime", "mtime">>

update_timestamps(attrs) ==
    LET parsed == [i \in 1..Len(TimestampKeys) |->
                      parse_timestamp(Get(attrs, TimestampKeys[i], NullV))]
    IN IF \E i \in 1..Len(TimestampKeys) : parsed[i].exc # "none"
       THEN Raise((parsed[CHOOSE i \in 1..Len(TimestampKeys) :
                       /\ parsed[i].exc # "none"
                       /\ \A j \in 1..(i - 1) : parsed[j].exc = "none"]).exc)
       ELSE Ok([i \in 1..Len(TimestampKeys) |->
                   <<TimestampLabel(TimestampKeys[i]), parsed[i].val>>])

ExecutionKeys == <<"queue", "job_state", "exec_host", "exec_vnode", "jobdir", "comment">>

\* The translator of job_state maps the code to its label; the other keys
\* go through identity.
update_execution(attrs) ==
    Ok([i \in 1..Len(ExecutionKeys) |->
           LET k == ExecutionKeys[i]
               v == Get(attrs, k, Missing)
           IN <<k, IF k = "job_state" THEN JobStateLabel(v) ELSE v>>])

\* expected_keys of update_resources and update_resource_table.
ExpectedResources == <<"mem", "ncpus", "nodect", "walltime", "mpiprocs", "place", "select">>

\* translations of preprocess_resource_table, in its order: label, data key.
ResourceTranslations ==
    << <<"memory", "mem">>, <<"# MPI processes", "mpiprocs">>, <<"# cpus", "ncpus">>,
       <<"# nodes", "nodect">>, <<"select", "select">>, <<"walltime", "walltime">>,
       <<"place", "place">> >>

\* data.get(group, {}).get(key, placeholder) for each group, in their order.
GroupValues(attrs, groups, key, placeholder) ==
    [g \in 1..Len(groups) |->
        LET group == Get(attrs, groups[g], MapV(EmptyDict))
        IN Get(group.v, key, placeholder)]

\* preprocess_resource_table over the per-resource groups: one row per
\* translation, the label and then the values of the resource.
ResourceRows(attrs, groups, placeholder) ==
    [i \in 1..Len(ResourceTranslations) |->
        IF ResourceTranslations[i][2] \in Range(ExpectedResources)
        THEN <<ResourceTranslations[i][1]>>
                 \o GroupValues(attrs, groups, ResourceTranslations[i][2], placeholder)
        ELSE <<ResourceTranslations[i][1], Unset>>]

update_resources(attrs) ==
    Ok(ResourceRows(attrs, <<"resource_list", "resources_used">>, NoneStr))

\* The data setter of JobDetailScreen: a copy whose attribute names are
\* lower-cased, "rerunable" renamed.
CanonicalKey(k) == IF LowerKey(k) = "rerunable" THEN "rerunnable" ELSE LowerKey(k)

NormalizedAttributes(d) ==
    [k2 \in {CanonicalKey(k) : k \in DOMAIN d} |->
        d[CHOOSE k \in DOMAIN d : CanonicalKey(k) = k2]]

data_setter(new) ==
    [k \in DOMAIN new \cup {"attributes"} |->
        IF k = "attributes"
        THEN MapV(NormalizedAttributes(Get(new, "attributes", MapV(EmptyDict)).v))
        ELSE new[k]]

(***************************************************************************)
(* screens/queue.py: the tables of QueueDetailScreen.                      *)
(***************************************************************************)
BoolV(b) == [t |-> "bool", v |-> b]
ListV(l) == [t |-> "list", v |-> l]

update_settings_table(attrs) ==
    Ok(KeyRows(<<"queue_type", "enabled", "started", "priority">>, attrs, Unset))

\* ensure_list
ensure_list(v) ==
    CASE v.t = "null" -> <<>>
      [] v.t = "list" -> v.v
      [] OTHER -> <<v>>

\* ", ".join(users)
RECURSIVE JoinComma(_)
JoinComma(users) ==
    IF users = <<>> THEN <<>>
    ELSE IF Len(users) = 1 THEN Head(users).v
    ELSE Head(users).v \o <<",", " ">> \o JoinComma(Tail(users))

TruthyValue(v) == IF v.t = "bool" THEN v.v ELSE IF v.t = "list" THEN v.v # <<>> ELSE Truthy(v)

update_permissions_table(attrs) ==
    LET users == ensure_list(Get(attrs, "acl_users", NullV))
        enforced == TruthyValue(Get(attrs, "acl_user_enable", BoolV(FALSE)))
    IN IF \E i \in 1..Len(users) : users[i].t # "str" THEN Raise("TypeError")
       ELSE Ok(<< <<"enforced", BoolV(enforced)>>, <<"users", StrV(JoinComma(users))>> >>)

QueueGroups == <<"resources_assigned", "resources_min", "resources_max", "resources_default">>

\* update_resource_table without the emptiness rule: the rows are always
\* rendered and the table is never disabled.
update_resource_table_rendered(attrs) ==
    Ok([rows |-> ResourceRows(attrs, QueueGroups, Unset), disabled |-> FALSE])

\* update_resource_table: the rows and the disabled flag of the table.
update_resource_table(attrs) ==
    LET translated == ResourceRows(attrs, QueueGroups, Unset)
    IN IF \E i \in 1..Len(translated) : \E g \in 2..Len(translated[i]) :
              translated[i][g] # Unset
       THEN Ok([rows |-> translated, disabled |-> FALSE])
       ELSE Ok([rows |-> <<>>, disabled |-> TRUE])

(***************************************************************************)
(* The detail screens.  detail.stored is self._data, detail.attr the       *)
(* attribute self.data that QueueDetailScreen.refresh_content assigns      *)
(* (JobDetailScreen has the property data over _data instead),             *)
(* detail.tables the rows of the screen's tables.                          *)
(***************************************************************************)
EmptyJobTables ==
    [details |-> <<>>, properties |-> <<>>, timestamps |-> <<>>,
     execution |-> <<>>, resources |-> <<>>]

EmptyQueueTables ==
    [settings |-> <<>>, permissions |-> <<>>,
     resources |-> [rows |-> <<>>, disabled |-> FALSE], job_summary |-> <<>>]

\* JobDetailScreen.refresh_data: the tables after the call; update_timestamps
\* is the one step that can raise, and leaves the later tables as they were.
job_refresh_data(tables, rec) ==
    LET attrs == rec["attributes"].v
        stamps == update_timestamps(attrs)
    IN IF stamps.exc # "none"
       THEN [exc |-> stamps.exc,
             val |-> [tables EXCEPT !.details = update_job_details(attrs).val,
                                    !.properties = update_properties(attrs).val]]
       ELSE Ok([details |-> update_job_details(attrs).val,
                properties |-> update_properties(attrs).val,
                timestamps |-> stamps.val,
                execution |-> update_execution(attrs).val,
                resources |-> update_resources(attrs).val])

\* QueueDetailScreen.refresh_data (and the same four calls of on_mount).
queue_refresh_data(tables, rec) ==
    IF "attributes" \notin DOMAIN rec THEN [exc |-> "KeyError", val |-> tables]
    ELSE LET attrs == rec["attributes"].v
             settings == [tables EXCEPT !.settings = update_settings_table(attrs).val]
             permissions == update_permissions_table(attrs)
             resources == [settings EXCEPT !.permissions = permissions.val,
                                           !.resources = update_resource_table(attrs).val]
             summary == update_job_summary(tables.job_summary, attrs)
         IN IF permissions.exc # "none" THEN [exc |-> permissions.exc, val |-> settings]
            ELSE [exc |-> summary.exc,
                  val |-> [resources EXCEPT !.job_summary = summary.val]]

\* data[self._job_id] / data[self._queue_id] on a snapshot.
HasEntry(snapshot, id) == \E i \in 1..Len(snapshot) : snapshot[i].id = id
EntryOf(snapshot, id) == snapshot[CHOOSE i \in 1..Len(snapshot) : snapshot[i].id = id].rec

DetailId == <<"1">>
OtherId == <<"2">>

DetailJob0 ==
    [attributes |-> MapV([Job_Name |-> StrV(<<"a">>), Job_Owner |-> StrV(<<"u">>),
                          job_state |-> StrV(<<"Q">>), queue |-> StrV(<<"w">>),
                          ctime |-> StrV(<<"1">>)])]

DetailJob1 ==
    [attributes |-> MapV([Job_Name |-> StrV(<<"a">>), Job_Owner |-> StrV(<<"u">>),
                          job_state |-> StrV(<<"R">>), queue |-> StrV(<<"w">>),
                          ctime |-> StrV(<<"1">>), stime |-> IntV(2),
                          Rerunable |-> StrV(<<"T", "r", "u", "e">>),
                          resources_used |-> MapV([walltime |-> StrV(<<"0", "1">>)])])]

DetailQueue0 ==
    [attributes |-> MapV([queue_type |-> StrV(<<"E">>), total_jobs |-> IntV(1),
                          state_count |-> StrV(<<"Q", ":", "1">>)]),
     description |-> NullV]

DetailQueue1 ==
    [attributes |-> MapV([queue_type |-> StrV(<<"E">>), total_jobs |-> IntV(3),
                          state_count |-> StrV(<<"Q", ":", "1", " ", "R", ":", "2">>),
                          enabled |-> StrV(<<"T", "r", "u", "e">>),
                          acl_users |-> StrV(<<"u">>),
                          resources_max |-> MapV([mem |-> StrV(<<"4", "g", "b">>)])]),
     description |-> NullV]

DetailRecords(k) ==
    IF k = "job" THEN {DetailJob0, DetailJob1} ELSE {DetailQueue0, DetailQueue1}

DetailResponses(k) ==
    { HttpResponse(200, <<Entry(DetailId, r)>>) : r \in DetailRecords(k) }
        \cup { HttpResponse(200, <<Entry(OtherId, r)>>) : r \in DetailRecords(k) }
        \cup { HttpResponse(200, EmptySnapshot), HttpResponse(500, EmptySnapshot),
               NetFailure }

\* __init__ of JobDetailScreen (through the data setter) and of
\* QueueDetailScreen, for the row selected in the list.
InitDetail ==
    /\ kind \in {"job", "queue"}
    /\ \E rec \in DetailRecords(kind) :
          detail = [open |-> TRUE, id |-> DetailId, mounted |-> FALSE,
                    stored |-> IF kind = "job" THEN data_setter(rec) ELSE rec,
                    attr |-> NoData,
                    applied |-> 0,
                    tables |-> IF kind = "job" THEN EmptyJobTables
                               ELSE EmptyQueueTables]
    /\ ListIdle
    /\ arg = <<>>
    /\ ret = Pending

refresh_data(k, tables, rec) ==
    IF k = "job" THEN job_refresh_data(tables, rec) ELSE queue_refresh_data(tables, rec)

\* on_mount of the detail screen: the tables are filled from self._data.
DetailMount ==
    /\ Alive /\ ~detail.mounted
    /\ LET rendered == refresh_data(kind, detail.tables, detail.stored)
       IN /\ detail' = [detail EXCEPT !.mounted = TRUE, !.tables = rendered.val]
          /\ error' = rendered.exc
    /\ UNCHANGED <<kind, mounted, data, rows, loading, workers, msgs, search,
                   shown, shutdown, arg, ret, app>>

\* action_refresh of the detail screen: refresh_content is @work(exclusive=True).
DetailRefresh ==
    /\ Alive /\ detail.mounted
    /\ Len(workers) < MaxWorkers
    /\ workers' = RunWorker(workers)
    /\ UNCHANGED <<kind, mounted, data, rows, loading, msgs, search, shown,
                   shutdown, error, detail, arg, ret, app>>

\* What refresh_content does with the result of query: the record of the
\* entity is looked up and assigned to self.data, then refresh_data() fills
\* the tables from self.data (JobDetailScreen) or self._data
\* (QueueDetailScreen).  val is the screen after it.
refresh_content(k, d, i, snapshot) ==
    IF ~HasEntry(snapshot, d.id) THEN [exc |-> "KeyError", val |-> d]
    ELSE LET assigned ==
                 IF k = "job"
                 THEN [d EXCEPT !.stored = data_setter(EntryOf(snapshot, d.id)),
                                !.applied = i]
                 ELSE [d EXCEPT !.attr = [set |-> TRUE, val |-> EntryOf(snapshot, d.id)],
                                !.applied = i]
             rendered == refresh_data(k, assigned.tables, assigned.stored)
         IN [exc |-> rendered.exc, val |-> [assigned EXCEPT !.tables = rendered.val]]

\* The GET of refresh_content's worker i ends and the worker runs to its end.
\* The *QueryResult message it posts has no handler on a detail screen.
DetailFetchDone(i, response) ==
    /\ Alive
    /\ workers[i].state = "running"
    /\ LET q == query(response)
           done == refresh_content(kind, detail, i, q.val)
           failure == IF q.exc # "none" THEN q.exc ELSE done.exc
       IN /\ workers' = [workers EXCEPT ![i] =
                 [state |-> IF failure = "none" THEN "success" ELSE "error",
                  response |-> response,
                  result |-> IF q.exc = "none" THEN q.val ELSE EmptySnapshot]]
          /\ detail' = IF q.exc = "none" THEN done.val ELSE detail
          /\ error' = failure
    /\ UNCHANGED <<kind, mounted, data, rows, loading, msgs, search, shown,
                   shutdown, arg, ret, app>>

NextDetail ==
    \/ DetailMount
    \/ DetailRefresh
    \/ \E i \in 1..Len(workers) : \E response \in DetailResponses(kind) :
           DetailFetchDone(i, response)

SpecDetail == InitDetail /\ [][NextDetail]_vars

\* The tables of a detail screen of kind k filled from record rec alone.
TablesOf(k, rec) ==
    IF k = "job" THEN job_refresh_data(EmptyJobTables, data_setter(rec)).val
    ELSE queue_refresh_data(EmptyQueueTables, rec).val

\* C5: a refresh replaces the snapshot wholesale: after the refresh of a detail
\* view completed with a snapshot that holds the entity, every table of the
\* view is rendered from the entity's record in that snapshot.
C5_DetailRefreshReplaces ==
    \A i \in 1..Len(workers) :
        (/\ workers[i].state \in {"success", "error"}
         /\ workers[i].response.net = "ok"
         /\ HasEntry(workers[i].result, detail.id)
         /\ \A j \in (i + 1)..Len(workers) : workers[j].state \in {"running", "cancelled"})
            => detail.tables = TablesOf(kind, EntryOf(workers[i].result, detail.id))

\* C6: every caller of query tolerates an empty snapshot: a refresh that
\* receives the empty mapping, or one without the displayed entity, completes
\* without raising.
C6_ToleratesEmptySnapshot ==
    \A i \in 1..Len(workers) :
        (/\ workers[i].state \in {"success", "error"}
         /\ workers[i].response.net = "ok"
         /\ ~HasEntry(workers[i].result, detail.id))
            => (workers[i].state = "success" /\ error = "none")

(***************************************************************************)
(* Row extraction on records that lack attributes: the extractors of the   *)
(* list views, the tables of the job detail view and the settings table    *)
(* of the queue detail view, on every record over a set of attributes.     *)
(***************************************************************************)
\* The function with domain keys that maps k to values[k].
Restrict(values, keys) == [k \in keys |-> values[k]]

JobAttributeValues ==
    [queue |-> StrV(<<"w">>), job_state |-> StrV(<<"R">>),
     Job_Name |-> StrV(<<"a">>), Job_Owner |-> StrV(<<"u">>),
     ctime |-> StrV(<<"1">>),
     resources_used |-> MapV([walltime |-> StrV(<<"0", "1">>)])]

QueueAttributeValues ==
    [queue_type |-> StrV(<<"E">>), total_jobs |-> IntV(2),
     enabled |-> StrV(<<"T", "r", "u", "e">>), priority |-> IntV(5)]

RowRecords(k) ==
    IF k = "job"
    THEN { [attributes |-> MapV(Restrict(JobAttributeValues, keys))] :
             keys \in SUBSET DOMAIN JobAttributeValues }
         \cup { [attributes |-> MapV([JobAttributeValues EXCEPT
                                        !.resources_used = MapV(EmptyDict)])] }
    ELSE { [attributes |-> MapV(Restrict(QueueAttributeValues, keys)),
            description |-> d] :
             keys \in SUBSET DOMAIN QueueAttributeValues,
             d \in {NullV, StrV(<<"d">>)} }
         \cup { [attributes |-> MapV(Restrict(QueueAttributeValues, keys))] :
                  keys \in SUBSET DOMAIN QueueAttributeValues }

NotExtracted == [op |-> "none", exc |-> "pending", val |-> <<>>]

InitRows ==
    /\ kind \in {"job", "queue"}
    /\ arg \in RowRecords(kind)
    /\ ret = NotExtracted
    /\ detail = NoDetail
    /\ ListIdle

\* extract_row of the list view on the record.
ExtractListRow ==
    /\ ret = NotExtracted
    /\ LET row == extract_row(kind, DetailId, arg)
       IN ret' = [op |-> "list", exc |-> row.exc, val |-> row.val]
    /\ UNCHANGED <<kind, arg, detail, ListVars>>

\* The tables of the job detail view on the record, as the screen holds it.
ExtractJobDetailRows ==
    /\ ret = NotExtracted /\ kind = "job"
    /\ LET tables == job_refresh_data(EmptyJobTables, data_setter(arg))
       IN ret' = [op |-> "job detail", exc |-> tables.exc, val |-> tables.val]
    /\ UNCHANGED <<kind, arg, detail, ListVars>>

\* The settings table of the queue detail view on the record.
ExtractQueueSettings ==
    /\ ret = NotExtracted /\ kind = "queue"
    /\ LET table == update_settings_table(arg["attributes"].v)
       IN ret' = [op |-> "queue settings", exc |-> table.exc, val |-> table.val]
    /\ UNCHANGED <<kind, arg, detail, ListVars>>

NextRows == ExtractListRow \/ ExtractJobDetailRows \/ ExtractQueueSettings

SpecRows == InitRows /\ [][NextRows]_vars

\* The attributes of the record, under their canonical names.
CanonicalAttributes(rec) == NormalizedAttributes(rec["attributes"].v)

\* The rows of key and value hold the placeholder for every absent key.
PlaceholderRows(table, attrs, placeholder) ==
    \A i \in 1..Len(table) :
        table[i][1] \notin DOMAIN attrs => table[i][2] = placeholder

\* C10: for every row extractor and every record an absent attribute is not
\* an error: extraction does not fail and the column holds the placeholder
\* of the table, never a null: "(missing)" in the job detail tables,
\* "(unset)" in the queue settings, "(not running)" for the walltime of a job
\* without resources_used.
C10_AbsentAttributePlaceholder ==
    /\ ret.op # "none" => ret.exc = "none"
    /\ ret.op = "list" =>
          /\ \A c \in 1..Len(ret.val) : ret.val[c].t = "str" \/ ret.val[c].t = "int"
          /\ (kind = "job" /\ "resources_used" \notin DOMAIN CanonicalAttributes(arg))
                 => ret.val[6] = NotRunning
    /\ ret.op = "job detail" =>
          /\ PlaceholderRows(ret.val.details, CanonicalAttributes(arg), Missing)
          /\ PlaceholderRows(ret.val.properties, CanonicalAttributes(arg), Missing)
          /\ PlaceholderRows(ret.val.execution, CanonicalAttributes(arg), Missing)
          /\ \A i \in 1..Len(TimestampKeys) :
                 TimestampKeys[i] \notin DOMAIN CanonicalAttributes(arg)
                     => ret.val.timestamps[i][2] = Missing
    /\ ret.op = "queue settings" =>
          PlaceholderRows(ret.val, arg["attributes"].v, Unset)

\* C10, for the tables of the detail views alone.
C10_DetailTablesPlaceholder == ret.op # "list" => C10_AbsentAttributePlaceholder

(***************************************************************************)
(* The resource table of the queue detail view, on the attribute records   *)
(* whose four groups are absent or hold any subset of a small set of       *)
(* entries: a falsy value, a value that is the placeholder text itself,    *)
(* and an entry that is no resource.                                       *)
(***************************************************************************)
GroupEntries ==
    [mem |-> IntV(0), place |-> Unset, max_queued |-> StrV(<<"9">>)]

\* The choices for one group: absent, or a map over some of the entries.
GroupChoices ==
    { [present |-> FALSE, d |-> Restrict(GroupEntries, {})] }
        \cup { [present |-> TRUE, d |-> Restrict(GroupEntries, keys)] :
                 keys \in SUBSET DOMAIN GroupEntries }

ResourceRecords ==
    { [g \in { QueueGroups[i] : i \in { j \in 1..Len(QueueGroups) : choice[j].present } }
          |-> MapV(choice[CHOOSE j \in 1..Len(QueueGroups) : QueueGroups[j] = g].d)] :
        choice \in [1..Len(QueueGroups) -> GroupChoices] }

InitResource ==
    /\ kind = "queue"
    /\ arg \in ResourceRecords
    /\ ret = NotExtracted
    /\ detail = NoDetail
    /\ ListIdle

\* update_resource_table on the attributes of the record.
UpdateResourceTable ==
    /\ ret = NotExtracted
    /\ LET table == update_resource_table(arg)
       IN ret' = [op |-> "resources", exc |-> table.exc, val |-> table.val]
    /\ UNCHANGED <<kind, arg, detail, ListVars>>

NextResource == UpdateResourceTable

SpecResource == InitResource /\ [][NextResource]_vars

\* The display label of a resource.
DisplayLabel(r) ==
    CASE r = "mem" -> "memory"
      [] r = "ncpus" -> "# cpus"
      [] r = "nodect" -> "# nodes"
      [] r = "mpiprocs" -> "# MPI processes"
      [] OTHER -> r

\* The value the group of the record has for the resource, the placeholder
\* where the group or the resource is absent.
Lookup(attrs, group, r) ==
    IF group \in DOMAIN attrs /\ r \in DOMAIN attrs[group].v
    THEN attrs[group].v[r] ELSE Unset

\* Some group holds, for some expected resource, a value other than the
\* placeholder.
HoldsResource(attrs) ==
    \E g \in 1..Len(QueueGroups) : \E e \in 1..Len(ExpectedResources) :
        Lookup(attrs, QueueGroups[g], ExpectedResources[e]) # Unset

\* C11: the resource table of a queue record is disabled, with no rows,
\* exactly when no group among resources_assigned, resources_min,
\* resources_max, resources_default holds a value for any of the seven
\* expected resources; otherwise it is enabled and has seven rows, one per
\* resource: the display label of the resource, then the value of each group
\* in the order assigned, min, max, default, "(unset)" where it is absent.
C11_ResourceTable ==
    ret.op = "resources" =>
        /\ ret.exc = "none"
        /\ ret.val.disabled <=> ~HoldsResource(arg)
        /\ ret.val.disabled => ret.val.rows = <<>>
        /\ ~ret.val.disabled =>
              /\ Len(ret.val.rows) = Len(ExpectedResources)
              /\ Len(ExpectedResources) = 7
              /\ \A e \in 1..Len(ExpectedResources) :
                    \E i \in 1..Len(ret.val.rows) :
                        /\ ret.val.rows[i][1] = DisplayLabel(ExpectedResources[e])
                        /\ Len(ret.val.rows[i]) = 1 + Len(QueueGroups)
                        /\ \A g \in 1..Len(QueueGroups) :
                              ret.val.rows[i][g + 1] =
                                  Lookup(arg, QueueGroups[g], ExpectedResources[e])

\* A table rendered from a record with one value, in resources_max alone.
C11_Witness ==
    /\ ret.op = "resources" /\ ~ret.val.disabled
    /\ DOMAIN arg = {"resources_max"}
    /\ \E i \in 1..Len(ret.val.rows) :
           ret.val.rows[i] = <<"memory", Unset, Unset, IntV(0), Unset>>

\* A table disabled although groups are present: they hold no expected
\* resource.
C11_WitnessDisabled ==
    /\ ret.op = "resources" /\ ret.val.disabled
    /\ "resources_min" \in DOMAIN arg
    /\ "max_queued" \in DOMAIN arg["resources_min"].v

(***************************************************************************)
(* utils.py: translate_json, on the JSON values nested to a bounded depth. *)
(***************************************************************************)
MaxDepth == 2

TrueStr == StrV(<<"T", "r", "u", "e">>)
FalseStr == StrV(<<"F", "a", "l", "s", "e">>)

\* bool(obj) of a string: true unless the string is empty.
bool(obj) == BoolV(obj.v # <<>>)

\* translate_json
RECURSIVE translate_json(_)
translate_json(value) ==
    CASE value = TrueStr \/ value = FalseStr -> bool(value)
      [] value.t = "map" ->
            MapV([k \in DOMAIN value.v |-> translate_json(value.v[k])])
      [] value.t = "list" ->
            ListV([i \in 1..Len(value.v) |-> translate_json(value.v[i])])
      [] OTHER -> value

JsonLeaves ==
    { TrueStr, FalseStr, StrV(<<"t", "r", "u", "e">>), StrV(<<>>),
      IntV(1), BoolV(FALSE), NullV }

\* The values nested at most n deep: a leaf, a list of one or two values,
\* a map of one entry, or a map of two entries one of which has the key "True".
RECURSIVE JsonValues(_)
JsonValues(n) ==
    IF n = 0 THEN JsonLeaves
    ELSE LET inner == JsonValues(n - 1)
         IN JsonLeaves
              \cup { ListV(<<x>>) : x \in inner }
              \cup { ListV(<<x, y>>) : x \in inner, y \in {FalseStr, IntV(1)} }
              \cup { MapV([a |-> x]) : x \in inner }
              \cup { MapV([True |-> x, b |-> TrueStr]) : x \in inner }

InitTranslate ==
    /\ kind = "job"
    /\ arg \in JsonValues(MaxDepth)
    /\ ret = NotExtracted
    /\ detail = NoDetail
    /\ ListIdle

\* One call of translate_json on the value.
TranslateJson ==
    /\ ret = NotExtracted
    /\ ret' = [op |-> "translate", exc |-> "none", val |-> translate_json(arg)]
    /\ UNCHANGED <<kind, arg, detail, ListVars>>

NextTranslate == TranslateJson

SpecTranslate == InitTranslate /\ [][NextTranslate]_vars

\* The conversion of boolean-like strings: "True" is true, "False" is false,
\* at every depth of maps and lists; everything else as it is.
RECURSIVE Converted(_)
Converted(value) ==
    CASE value = TrueStr -> BoolV(TRUE)
      [] value = FalseStr -> BoolV(FALSE)
      [] value.t = "map" -> MapV([k \in DOMAIN value.v |-> Converted(value.v[k])])
      [] value.t = "list" -> ListV([i \in 1..Len(value.v) |-> Converted(value.v[i])])
      [] OTHER -> value

\* The value holds the string "False" at some depth.
RECURSIVE HoldsFalseStr(_)
HoldsFalseStr(value) ==
    CASE value = FalseStr -> TRUE
      [] value.t = "map" -> \E k \in DOMAIN value.v : HoldsFalseStr(value.v[k])
      [] value.t = "list" -> \E i \in 1..Len(value.v) : HoldsFalseStr(value.v[i])
      [] OTHER -> FALSE

\* C12: translate_json turns, at any depth of maps and lists, the string
\* "True" into true and the string "False" into false, and returns every
\* other value, the shape of maps and lists and the keys of maps unchanged.
C12_TranslateJson ==
    ret.op = "translate" => ret.val = Converted(arg)

\* C12, for the values that hold no string "False".
C12_TranslateJsonTrue ==
    (ret.op = "translate" /\ ~HoldsFalseStr(arg)) => ret.val = Converted(arg)

(***************************************************************************)
(* Search on a list view: on_input_changed of JobScreen and QueueScreen on *)
(* the snapshots over a pool of entries, for the patterns that compile.    *)
(***************************************************************************)
SearchPool(k) ==
    IF k = "job"
    THEN { Entry(<<"1", "0">>, JobOf(<<"R">>, <<"a">>)),
           Entry(<<"2">>, JobOf(<<"Q">>, <<"a", "R">>)),
           Entry(<<"R", "1">>, JobOf(<<"Z">>, <<"b">>)) }
    ELSE { Entry(<<"w", "1", "0">>, QueueOf(<<"E">>, IntV(3))),
           Entry(<<"R", "1">>, QueueOf(<<"E">>, IntV(12))),
           Entry(<<"w", "2">>, QueueOf(<<"R">>, StrV(<<"0">>))),
           Entry(<<"q">>, QueueOf(<<"x", "R">>, StrV(<<"1", "2">>))) }

SearchPatterns ==
    { <<>>, <<"R">>, <<"^", "R">>, <<"(", "R", ")">>, <<"1">>, <<"r", "u">>, <<"Z">> }

InitSearch ==
    /\ kind \in {"job", "queue"}
    /\ arg \in [snapshot : DistinctSeqs(SearchPool(kind), MaxIds),
                pattern : SearchPatterns]
    /\ ret = NotExtracted
    /\ detail = NoDetail
    /\ ListIdle

\* on_input_changed of a screen that holds the snapshot and shows an empty
\* table, the Input holding the pattern.
SearchChanged ==
    /\ ret = NotExtracted
    /\ LET handled == on_input_changed(kind, <<>>,
                                       [set |-> TRUE, val |-> arg.snapshot],
                                       arg.pattern)
       IN ret' = [op |-> "search", exc |-> handled.exc, val |-> handled.val]
    /\ UNCHANGED <<kind, arg, detail, ListVars>>

NextSearch == SearchChanged

SpecSearch == InitSearch /\ [][NextSearch]_vars

\* The decimal text of a natural number.
RECURSIVE DecimalText(_)
DecimalText(n) ==
    IF n < 10 THEN <<CHOOSE c \in AsciiDigits : DigitVal(c) = n>>
    ELSE DecimalText(n \div 10) \o DecimalText(n % 10)

\* A column as a string.
ColumnText(v) == IF v.t = "int" THEN DecimalText(v.v) ELSE v.v

\* The pattern matches at the start of the text.
MatchesAtStart(p, text) ==
    LET lit == Literal(IF p # <<>> /\ Head(p) = "^" THEN Tail(p) ELSE p)
    IN Len(lit) <= Len(text) /\ SubSeq(text, 1, Len(lit)) = lit

\* The entry is retained: the pattern matches at the start of the identifier
\* or of a column of the row of the entry.
Retained(k, p, entry) ==
    \/ MatchesAtStart(p, entry.id)
    \/ LET row == extract_row(k, entry.id, entry.rec).val
       IN \E c \in 1..Len(row) : MatchesAtStart(p, ColumnText(row[c]))

\* The identifiers of the entries of the snapshot that are retained.
RetainedIds(k, p, snapshot) ==
    { snapshot[i].id : i \in { j \in 1..Len(snapshot) : Retained(k, p, snapshot[j]) } }

\* C13: shallow search keeps an entry if and only if the pattern matches at
\* the start of its identifier or of a column of its row, the column taken
\* as a string; a column that is no string, such as an integer count of
\* jobs, is matched through its text and does not make the search fail.
C13_ShallowSearch ==
    ret.op = "search" =>
        /\ ret.exc = "none"
        /\ { ret.val[i][1].v : i \in 1..Len(ret.val) }
               = RetainedIds(kind, arg.pattern, arg.snapshot)
        /\ Len(ret.val) = Cardinality(RetainedIds(kind, arg.pattern, arg.snapshot))

\* Every column of every row of the snapshot is a string.
StringColumns(k, snapshot) ==
    \A i \in 1..Len(snapshot) :
        LET row == extract_row(k, snapshot[i].id, snapshot[i].rec).val
        IN \A c \in 1..Len(row) : row[c].t = "str"

\* C13, for the snapshots whose columns are all strings.
C13_ShallowSearchStrings ==
    StringColumns(kind, arg.snapshot) => C13_ShallowSearch

\* The search for "^R" over the jobs in state R and Q keeps the job in
\* state R.
C13_StateExample ==
    (/\ ret.op = "search" /\ kind = "job" /\ arg.pattern = <<"^", "R">>
     /\ arg.snapshot = <<Entry(<<"1", "0">>, JobOf(<<"R">>, <<"a">>)),
                         Entry(<<"2">>, JobOf(<<"Q">>, <<"a", "R">>))>>)
        => { ret.val[i][1].v : i \in 1..Len(ret.val) } = { <<"1", "0">> }

(***************************************************************************)
(* The data setter of JobDetailScreen with the insertion order of the      *)
(* attributes explicit, on the records whose attributes are up to MaxKeys  *)
(* names of a pool in which names collide once normalized.                 *)
(***************************************************************************)
MaxKeys == 3

\* The last index of the order whose key has the canonical name k2.
LastIndexOf(order, k2) ==
    CHOOSE i \in 1..Len(order) :
        /\ CanonicalKey(order[i]) = k2
        /\ \A j \in (i + 1)..Len(order) : CanonicalKey(order[j]) # k2

\* The dict comprehension of the setter over d.items() in insertion order:
\* a name that occurs again replaces the value.
NormalizedInOrder(d, order) ==
    [k2 \in {CanonicalKey(order[i]) : i \in 1..Len(order)} |->
        d[order[LastIndexOf(order, k2)]]]

\* The setter that assigns to the record it was given: data = new.
data_setter_in_place(new, order) ==
    LET copy == [k \in DOMAIN new \cup {"attributes"} |->
                    IF k = "attributes"
                    THEN MapV(NormalizedInOrder(
                                  Get(new, "attributes", MapV(EmptyDict)).v, order))
                    ELSE new[k]]
    IN [stored |-> copy, input |-> copy]

\* The setter: data = dict(new) is a copy, the assignment of
\* data["attributes"] leaves new as it is; self._data is the copy.
data_setter_call(new, order) ==
    LET copy == [k \in DOMAIN new \cup {"attributes"} |->
                    IF k = "attributes"
                    THEN MapV(NormalizedInOrder(
                                  Get(new, "attributes", MapV(EmptyDict)).v, order))
                    ELSE new[k]]
    IN [stored |-> copy, input |-> new]

KeyPool == {"Job_Name", "job_name", "Rerunable", "rerunable", "rerunnable", "queue"}

\* A record and the insertion order of its attributes; the value of an
\* attribute is its position.
NormalizerInputs ==
    { [rec |-> [attributes |-> MapV([k \in Range(order) |->
                    IntV(CHOOSE i \in 1..Len(order) : order[i] = k)]),
                Etag |-> StrV(<<"e">>)],
       order |-> order] : order \in DistinctSeqs(KeyPool, MaxKeys) }
        \cup { [rec |-> [Etag |-> StrV(<<"e">>)], order |-> <<>>] }

\* The insertion order of a normalized dict: the names in the order of their
\* first occurrence.
RECURSIVE NormalizedOrder(_, _)
NormalizedOrder(order, seen) ==
    IF order = <<>> THEN <<>>
    ELSE IF CanonicalKey(Head(order)) \in seen
         THEN NormalizedOrder(Tail(order), seen)
         ELSE <<CanonicalKey(Head(order))>>
                  \o NormalizedOrder(Tail(order), seen \cup {CanonicalKey(Head(order))})

InitNormalize ==
    /\ kind = "job"
    /\ arg \in NormalizerInputs
    /\ ret = NotExtracted
    /\ detail = NoDetail
    /\ ListIdle

\* self.data = rec, and then self.data = self.data: the record after the
\* first assignment, the record it was given, and the record after the second.
SetData ==
    /\ ret = NotExtracted
    /\ LET once == data_setter_call(arg.rec, arg.order)
           twice == data_setter_call(once.stored, NormalizedOrder(arg.order, {}))
       IN ret' = [op |-> "normalize", exc |-> "none",
                  val |-> [once |-> once.stored, input |-> once.input,
                           twice |-> twice.stored, kept |-> twice.input]]
    /\ UNCHANGED <<kind, arg, detail, ListVars>>

NextNormalize == SetData

SpecNormalize == InitNormalize /\ [][NextNormalize]_vars

\* The canonical name of an attribute: lower case, "rerunable" spelt
\* "rerunnable".
CanonicalName(k) ==
    CASE k \in {"Job_Name", "job_name"} -> "job_name"
      [] k \in {"Rerunable", "rerunable", "rerunnable"} -> "rerunnable"
      [] OTHER -> k

\* The attributes of a record, none if it has no attributes.
AttributesOf(rec) == Get(rec, "attributes", MapV(EmptyDict)).v

\* C14: the data setter of JobDetailScreen stores a new record whose
\* attribute names are the lower-cased names of the record given, with
\* "rerunable" renamed to "rerunnable", each with a value the record had
\* under a name that normalizes to it; it leaves the record given
\* unmodified; and the record it stores for an already normalized record is
\* that record.
C14_NormalizeIdempotent ==
    ret.op = "normalize" =>
        /\ DOMAIN AttributesOf(ret.val.once)
               = { CanonicalName(k) : k \in DOMAIN AttributesOf(arg.rec) }
        /\ \A k2 \in DOMAIN AttributesOf(ret.val.once) :
               \E k \in DOMAIN AttributesOf(arg.rec) :
                   /\ CanonicalName(k) = k2
                   /\ AttributesOf(ret.val.once)[k2] = AttributesOf(arg.rec)[k]
        /\ \A k \in DOMAIN arg.rec \ {"attributes"} : ret.val.once[k] = arg.rec[k]
        /\ ret.val.input = arg.rec
        /\ ret.val.twice = ret.val.once
        /\ ret.val.kept = ret.val.once

\* A record with the attributes Job_Name and Rerunable was normalized: the
\* record stored has job_name and rerunnable, the record given still has
\* its own names.
C14_Witness ==
    /\ ret.op = "normalize"
    /\ DOMAIN AttributesOf(arg.rec) = {"Job_Name", "Rerunable"}
    /\ DOMAIN AttributesOf(ret.val.once) = {"job_name", "rerunnable"}
    /\ DOMAIN AttributesOf(ret.val.input) = {"Job_Name", "Rerunable"}
    /\ ret.val.twice = ret.val.once

\* On the records without colliding names the setter stores what data_setter
\* gives.
C14_AgreesWithDataSetter ==
    (/\ ret.op = "normalize"
     /\ \A k1, k2 \in DOMAIN AttributesOf(arg.rec) :
            CanonicalName(k1) = CanonicalName(k2) => k1 = k2)
        => ret.val.once = data_setter(arg.rec)

(***************************************************************************)
(* The rows of a list screen against its snapshot and its search input.    *)
(***************************************************************************)
\* The entries of the snapshot that the pattern retains, in their order.
RECURSIVE RetainedEntries(_, _, _)
RetainedEntries(k, p, snapshot) ==
    IF snapshot = <<>> THEN <<>>
    ELSE (IF Retained(k, p, Head(snapshot)) THEN <<Head(snapshot)>> ELSE <<>>)
             \o RetainedEntries(k, p, Tail(snapshot))

\* The sorted rows of the entries of the snapshot that the pattern retains.
FilteredRows(k, p, snapshot) ==
    update_table(k, <<>>, RetainedEntries(k, p, snapshot)).val

\* C15: in a list view, after any sequence of changes of the search input to
\* valid patterns and of completed refreshes, the rows displayed are the
\* sorted rows of the entries of the current snapshot that match the current
\* content of the search input: a refresh that completes while a pattern is
\* entered displays no entry the pattern excludes, and clearing the pattern
\* brings back every entry of the snapshot.
C15_RowsAreFilteredSnapshot ==
    (Alive /\ data.set /\ re_compile(search).exc = "none")
        => rows = FilteredRows(kind, search, data.val)

\* C15, for the changes of the search input alone: the handler leaves the
\* rows of the entries of the snapshot that match the new content.
C15_InputChangeFilters ==
    [][(search' # search /\ error' = "none")
          => rows' = FilteredRows(kind, search', data.val)]_vars

(***************************************************************************)
(* app.py: start-up of JobqueueMonitor.  app.connect and app.launch are    *)
(* the positions of the workers _connect and _launch_server, app.queue the *)
(* messages posted to the app and not yet handled, app.screens the screens *)
(* pushed, app.queries the number of query calls issued by their           *)
(* on_mount.  Ghosts: app.started, ServerStarted was handled; app.refused, *)
(* the key presses whose action was disabled.                              *)
(***************************************************************************)
MaxRefused == 2

\* A check_action that enables every action.
check_action_enabled(loadingFlag, action) == TRUE

\* check_action, with self.loading as an argument: None (disabled) while
\* loading for show_jobs and show_queues, True otherwise.
check_action(loadingFlag, action) ==
    ~(loadingFlag /\ action \in {"show_jobs", "show_queues"})

\* JobqueueMonitor(config): loading is reactive(False), _connection None.
Constructed(executable) ==
    [pc |-> "constructed", executable |-> executable, loading |-> FALSE,
     connect |-> "none", connection |-> FALSE, launch |-> "none",
     process |-> FALSE, forward |-> FALSE, queue |-> <<>>, started |-> FALSE,
     screens |-> <<>>, queries |-> 0, refused |-> 0]

AppIdle ==
    /\ kind = "job" /\ arg = <<>> /\ ret = Pending /\ detail = NoDetail
    /\ mounted = FALSE /\ data = NoData /\ rows = <<>> /\ loading = FALSE
    /\ workers = <<>> /\ msgs = <<>> /\ search = <<>> /\ shown = 0
    /\ shutdown = NoShutdown /\ error = "none"

AppVars == <<kind, arg, ret, detail, mounted, data, rows, loading, workers,
             msgs, search, shown, shutdown, error>>

InitStartup ==
    /\ app \in { Constructed(executable) : executable \in BOOLEAN }
    /\ AppIdle

\* on_mount: self.loading = True, then the worker _connect starts.
AppMount ==
    /\ app.pc = "constructed"
    /\ app' = [app EXCEPT !.pc = "running", !.loading = TRUE, !.connect = "running"]
    /\ UNCHANGED AppVars

\* _connect: asyncssh.connect returns and SSHConnected is posted, or it
\* raises and the failed worker ends the app.
ConnectDone(ok) ==
    /\ app.pc = "running" /\ app.connect = "running"
    /\ app' = IF ok
              THEN [app EXCEPT !.connect = "success",
                               !.queue = Append(@, "SSHConnected")]
              ELSE [app EXCEPT !.connect = "error", !.pc = "exited"]
    /\ UNCHANGED AppVars

\* launch_server, the handler of SSHConnected: keeps the connection and
\* starts the worker _launch_server, which looks the executable up unless
\* the configuration names it.
LaunchServer ==
    /\ app.pc = "running"
    /\ app.queue # <<>> /\ Head(app.queue) = "SSHConnected"
    /\ app' = [app EXCEPT !.queue = Tail(@), !.connection = TRUE,
                          !.launch = IF app.executable THEN "creating"
                                     ELSE "searching"]
    /\ UNCHANGED AppVars

\* _launch_server: search_executable returns or raises.
SearchDone(ok) ==
    /\ app.pc = "running" /\ app.launch = "searching"
    /\ app' = IF ok THEN [app EXCEPT !.launch = "creating"]
              ELSE [app EXCEPT !.launch = "error", !.pc = "exited"]
    /\ UNCHANGED AppVars

\* _launch_server: create_process starts the remote server, or raises.
ProcessCreated(ok) ==
    /\ app.pc = "running" /\ app.launch = "creating"
    /\ app' = IF ok THEN [app EXCEPT !.launch = "forwarding", !.process = TRUE]
              ELSE [app EXCEPT !.launch = "error", !.pc = "exited"]
    /\ UNCHANGED AppVars

\* _launch_server: forward_local_port returns the listener and ServerStarted
\* is posted, or it raises, which leaves the async with and ends the
\* process.
ForwardCreated(ok) ==
    /\ app.pc = "running" /\ app.launch = "forwarding"
    /\ app' = IF ok
              THEN [app EXCEPT !.launch = "serving", !.forward = TRUE,
                               !.queue = Append(@, "ServerStarted")]
              ELSE [app EXCEPT !.launch = "error", !.process = FALSE,
                               !.pc = "exited"]
    /\ UNCHANGED AppVars

\* enable_table, the handler of ServerStarted: self.loading = False.
EnableTable ==
    /\ app.pc = "running"
    /\ app.queue # <<>> /\ Head(app.queue) = "ServerStarted"
    /\ app' = [app EXCEPT !.queue = Tail(@), !.loading = FALSE, !.started = TRUE]
    /\ UNCHANGED AppVars

\* The name action_show_jobs / action_show_queues pushes.
ScreenOf(action) == IF action = "show_jobs" THEN "job" ELSE "queue"

\* The key j or q: the binding runs its action if check_action allows it.
\* The action pushes the screen, whose on_mount issues the first query.  A
\* screen is pushed while it is not on the stack.
KeyPress(action) ==
    /\ app.pc = "running"
    /\ IF check_action(app.loading, action)
       THEN /\ \A i \in 1..Len(app.screens) : app.screens[i] # ScreenOf(action)
            /\ app' = [app EXCEPT !.screens = Append(@, ScreenOf(action)),
                                  !.queries = @ + 1]
       ELSE /\ app.refused < MaxRefused
            /\ app' = [app EXCEPT !.refused = @ + 1]
    /\ UNCHANGED AppVars

\* ctrl+c: action_quit, which check_action never disables, ends the app.
AppQuit ==
    /\ app.pc = "running"
    /\ check_action(app.loading, "quit")
    /\ app' = [app EXCEPT !.pc = "exited"]
    /\ UNCHANGED AppVars

NextStartup ==
    \/ AppMount
    \/ \E ok \in BOOLEAN : ConnectDone(ok)
    \/ LaunchServer
    \/ \E ok \in BOOLEAN : SearchDone(ok)
    \/ \E ok \in BOOLEAN : ProcessCreated(ok)
    \/ \E ok \in BOOLEAN : ForwardCreated(ok)
    \/ EnableTable
    \/ \E action \in {"show_jobs", "show_queues"} : KeyPress(action)
    \/ AppQuit

SpecStartup == InitStartup /\ [][NextStartup]_vars

\* ServerStarted is posted and not yet handled.
ServerStartedPosted ==
    \E i \in 1..Len(app.queue) : app.queue[i] = "ServerStarted"

StartupOrder ==
    /\ (app.pc # "constructed" /\ ~app.started) => app.loading
    /\ (ServerStartedPosted \/ app.started) =>
           (app.connection /\ app.process /\ app.forward)
    /\ (app.screens # <<>> \/ app.queries > 0) => app.forward

\* C16: the loading flag is true from mount until ServerStarted is handled;
\* ServerStarted is posted only after the SSH connection was made, the remote
\* server was launched and the local port forward was created; while loading
\* is true show_jobs and show_queues are disabled: no step taken while
\* loading opens a view or issues a query.  Hence no view is open and no
\* query was issued before the port forward exists.
C16_StartupOrder ==
    /\ []StartupOrder
    /\ [][app.loading => (app'.screens = app.screens /\ app'.queries = app.queries)]_vars

\* Keys were refused while loading; after ServerStarted was handled both
\* views were opened and issued their queries.
C16_Witness ==
    /\ app.pc = "running" /\ app.started /\ ~app.loading
    /\ app.refused > 0
    /\ Len(app.screens) = 2 /\ app.queries = 2

====
